---- MODULE Spec2Model ----
(***************************************************************************)
(* Model of backend/app.py: a Flask URL shortener over one sqlite table.   *)
(*                                                                         *)
(* State: the table `urls`, its AUTOINCREMENT sequence, the wall clock,    *)
(* whether the database file can be opened, the requests that are between  *)
(* two SQL statements, and a history of what was inserted, deleted and     *)
(* redirected.  A response is not state: it is a function of the request   *)
(* and of the state the handler's step starts in, written as the           *)
(* handler's ...Reply operator.                                            *)
(*                                                                         *)
(* Every sqlite3 connection of the program is in the default (legacy)      *)
(* transaction mode: a SELECT runs on its own, an INSERT / UPDATE / DELETE *)
(* opens a transaction that the following conn.commit() ends.  A handler   *)
(* is therefore cut into one step per SELECT and one step per              *)
(* write-and-commit; other requests may run between two steps.             *)
(*                                                                         *)
(* Time is counted in clock units, UnitsPerSecond of them to a second and  *)
(* UnitsPerDay of them to a day.                                           *)
(* The local time zone of the process is taken to be UTC, so that          *)
(* datetime.now() and sqlite's CURRENT_TIMESTAMP read the same clock.      *)
(***************************************************************************)
EXTENDS Integers, Sequences, FiniteSets, Bags, TLC

(* ------------------------------ bounds -------------------------------- *)

\* Clock units in one second: the sub-second part of datetime.now().
UnitsPerSecond == 2
\* Clock units in one day of timedelta(days=...), scaled down.
UnitsPerDay == 1
\* Clock units the clock advances beyond its start.
MaxTicks == 2
\* Requests that may be in progress at once in Spec (the worker threads).
NumThreads == 2
\* Rows ever inserted (the highest id).
MaxId == 2
\* Highest click_count explored.
MaxClicks == 2
\* The LIMIT of the dashboard's recent list (20 at app.py:324), scaled down
\* so that a table of MaxId rows exceeds it.
RecentLimit == 1

(* ------------------------ program configuration ----------------------- *)

DEFAULT_SHORT_CODE_LENGTH == 6
MAX_SHORT_CODE_LENGTH == 10

(* ------------------------------ values -------------------------------- *)

\* SQL NULL / Python None for a value that is otherwise a sequence.
NULL == <<>>
\* A missing or empty string field (None and "" are both false in Python).
NoCode == ""

\* The clock at the start: late enough for a day before it to exist.
StartClock == UnitsPerDay

\* Submitted urls, as the sequence of their parts: a scheme prefix, if any,
\* then the rest.  NULL: the field is missing.
Urls == {NULL, <<"example.com">>, <<"http://", "x.com">>}

\* Submitted custom codes.  "health" is also the name of a route;
\* "toolongcode" has 11 characters.
CustomCodes == {NoCode, "health", "mycode", "toolongcode"}

\* Codes generate_short_code() may draw: strings of DEFAULT_SHORT_CODE_LENGTH
\* letters and digits.
GeneratedCodes == {c \in {"health", "mycode", "cleanup"} :
                     Len(c) = DEFAULT_SHORT_CODE_LENGTH}

\* Codes a row can hold.
StoredCodes == {c \in CustomCodes :
                  c # NoCode /\ Len(c) <= MAX_SHORT_CODE_LENGTH}
               \cup GeneratedCodes

\* days_valid as submitted: <<n>> for the integer n (an absent field is the
\* configured default, a positive integer), <<>> for a value that int() or
\* timedelta(days=...) does not take (null, a string).
DaysValid == {<<-1>>, <<1>>, <<>>}

\* Path segments requested with GET /<segment>.
Segments == {"health", "dashboard", "metrics", "mycode"}

VARIABLES
  store,      \* the rows of table urls
  nextId,     \* sqlite_sequence: the id the next INSERT gets
  clock,      \* the wall clock, in clock units
  storageUp,  \* sqlite3.connect and the statements succeed
  inflight,   \* the bag of requests that are in the middle of a handler
  hist        \* history: rows created, rows deleted and, per code, the
              \* 302s answered since a row with the code was last inserted

vars == <<store, nextId, clock, storageUp, inflight, hist>>

(* ------------------------------- time --------------------------------- *)

\* timedelta(days=d) in clock units.
timedelta(d) == d * UnitsPerDay

\* sqlite3's default adapter for datetime, datetime.isoformat(" "):
\* "YYYY-MM-DD HH:MM:SS" and, unless the microseconds are 0, ".ffffff".
\* The text is modelled as <<seconds>> or <<seconds, fraction>>.
isoformat(dt) ==
  IF dt % UnitsPerSecond = 0
    THEN << dt \div UnitsPerSecond >>
    ELSE << dt \div UnitsPerSecond, dt % UnitsPerSecond >>

\* CURRENT_TIMESTAMP: "YYYY-MM-DD HH:MM:SS", whole seconds.
CURRENT_TIMESTAMP == << clock \div UnitsPerSecond >>

\* The BINARY collation on two timestamp texts: field by field, a text
\* that is a proper prefix of the other is the smaller.
TextLess(a, b) ==
  \/ a[1] < b[1]
  \/ /\ a[1] = b[1]
     /\ \/ Len(a) < Len(b)
        \/ Len(a) = 2 /\ Len(b) = 2 /\ a[2] < b[2]

\* SQL's a < b: not true when either side is NULL.
SqlLess(a, b) == a # NULL /\ b # NULL /\ TextLess(a, b)

\* datetime.strptime(text, '%Y-%m-%d %H:%M:%S') parses only a text without
\* a fraction; on any other it raises ValueError.
StrptimeRaises(text) == Len(text) # 1
strptime(text) == text[1] * UnitsPerSecond

(* ------------------------------ routing ------------------------------- *)

\* The view function the URL map gives a one-segment path: a static rule
\* whose methods include the request's wins over the rule /<short_code>.
Route(method, seg) ==
  IF method = "GET"
    THEN CASE seg = "health"    -> "health"
           [] seg = "dashboard" -> "dashboard"
           [] seg = "metrics"   -> "metrics_endpoint"
           [] OTHER             -> "redirect_to_url"
    ELSE CASE seg = "shorten"   -> "shorten_url"
           [] seg = "cleanup"   -> "cleanup"
           [] OTHER             -> "method_not_allowed"

(* ----------------------------- statements ----------------------------- *)

\* SELECT ... FROM urls WHERE short_code = ?
SelectByCode(code) == {r \in store : r.short_code = code}

\* (mutant) ... OR expires_at >= ?
SelectActiveInclusive(code, now) ==
  {r \in store : /\ r.short_code = code
                 /\ (r.expires_at = NULL \/ ~SqlLess(r.expires_at, now))}

\* SELECT ... WHERE short_code = ? AND (expires_at IS NULL OR expires_at > ?)
SelectActive(code, now) ==
  {r \in store : /\ r.short_code = code
                 /\ (r.expires_at = NULL \/ SqlLess(now, r.expires_at))}

\* (mutant) short_code TEXT NOT NULL, without UNIQUE.
NoUniqueConstraint(code) == FALSE

\* The UNIQUE constraint on short_code: the INSERT raises IntegrityError.
UniqueViolated(code) == \E r \in store : r.short_code = code

\* INSERT INTO urls (original_url, short_code, expires_at) VALUES (?, ?, ?)
\* with the column defaults of the table.
NewRow(original_url, short_code, expires_at) ==
  [ id           |-> nextId,
    original_url |-> original_url,
    short_code   |-> short_code,
    created_at   |-> CURRENT_TIMESTAMP,
    expires_at   |-> isoformat(expires_at),
    click_count  |-> 0 ]

\* (mutant) UPDATE urls SET click_count = click_count + 1
UpdateClicksEverywhere(code) ==
  { [r EXCEPT !.click_count = @ + 1] : r \in store }

\* UPDATE urls SET click_count = click_count + 1 WHERE short_code = ?
UpdateClicks(code) ==
  { IF r.short_code = code
      THEN [r EXCEPT !.click_count = @ + 1]
      ELSE r : r \in store }

\* (mutant) DELETE FROM urls WHERE expires_at <= ?
ExpiredRowsInclusive(now) == {r \in store : ~SqlLess(now, r.expires_at)}

\* The rows of DELETE FROM urls WHERE expires_at < ?
ExpiredRows(now) == {r \in store : SqlLess(r.expires_at, now)}

(* ----------------------------- responses ------------------------------ *)

\* A response: the status, the label of custom_error_counter incremented
\* ("" for none) and the JSON body or the Location.
Reply(status, err, body) == [status |-> status, err |-> err, body |-> body]

Error(msg) == [error |-> msg]

\* No response yet: the handler goes on to its next statement.
Pending == Reply(0, "", Error(""))

\* The exception handlers of the views, and Flask's handler of a 500.
DatabaseError == Reply(500, "database", Error("Internal server error"))
InternalError == Reply(500, "500", Error("Internal server error"))

(* ------------------------- requests in flight ------------------------- *)

InflightOf(op) == {rq \in BagToSet(inflight) : rq.op = op}

\* How many requests are in the middle of handler op.
NumInflight(op) ==
  BagCardinality([rq \in InflightOf(op) |-> inflight[rq]])

\* A worker thread is free to take a request.
ThreadFree == BagCardinality(inflight) < NumThreads

Suspend(rq) == inflight' = inflight (+) SetToBag({rq})
Finish(rq) == inflight' = inflight (-) SetToBag({rq})
Resume(rq, rq2) == inflight' = (inflight (-) SetToBag({rq})) (+) SetToBag({rq2})

(* ------------------------------- state -------------------------------- *)

Init ==
  /\ store = {}
  /\ nextId = 1
  /\ clock = StartClock
  /\ storageUp = TRUE
  /\ inflight = EmptyBag
  /\ hist = [created |-> 0, deleted |-> 0,
             redirects |-> [c \in StoredCodes |-> 0]]

(* ---------------------------- environment ----------------------------- *)

Tick ==
  /\ clock < StartClock + MaxTicks
  /\ clock' = clock + 1
  /\ UNCHANGED <<store, nextId, storageUp, inflight, hist>>

StorageFails ==
  /\ storageUp
  /\ storageUp' = FALSE
  /\ UNCHANGED <<store, nextId, clock, inflight, hist>>

StorageRecovers ==
  /\ ~storageUp
  /\ storageUp' = TRUE
  /\ UNCHANGED <<store, nextId, clock, inflight, hist>>

(* ------------------------- POST /shorten ------------------------------ *)

\* shorten_url up to the INSERT: reading the fields (a form's days_valid
\* goes through int() at once), the validation, the expiry time (where a
\* JSON days_valid that timedelta does not take raises), the connection
\* and, for a custom code, the SELECT that looks for it.
ShortenBeginReply(is_json, url, custom_code, days_valid) ==
  IF ~is_json /\ days_valid = <<>>
    THEN InternalError
  ELSE IF url = NULL
    THEN Reply(400, "validation", Error("URL is required"))
  ELSE IF custom_code # NoCode /\ Len(custom_code) > MAX_SHORT_CODE_LENGTH
    THEN Reply(400, "validation", Error("Custom code too long"))
  ELSE IF days_valid = <<>>
    THEN InternalError
  ELSE IF ~storageUp
    THEN DatabaseError
  ELSE IF custom_code # NoCode /\ SelectByCode(custom_code) # {}
    THEN Reply(409, "duplicate_code", Error("Custom code already exists"))
  ELSE Pending

\* The request as it stands before the INSERT: the url with its scheme,
\* the code (the custom one or the generated one) and the expiry time.
ShortenRequest(url, custom_code, days_valid, generated) ==
  [ op           |-> "shorten",
    original_url |-> IF url[1] \in {"http://", "https://"}
                       THEN url
                       ELSE <<"http://">> \o url,
    short_code   |-> IF custom_code # NoCode THEN custom_code ELSE generated,
    expires_at   |-> clock + timedelta(days_valid[1]) ]

ShortenBegin ==
  /\ ThreadFree
  /\ nextId + NumInflight("shorten") <= MaxId
  /\ \E url \in Urls, custom_code \in CustomCodes, days_valid \in DaysValid :
     \E is_json \in IF days_valid = <<>> THEN BOOLEAN ELSE {TRUE},
        generated \in IF custom_code = NoCode THEN GeneratedCodes
                                              ELSE {NoCode} :
       IF ShortenBeginReply(is_json, url, custom_code, days_valid) = Pending
         THEN Suspend(ShortenRequest(url, custom_code, days_valid, generated))
         ELSE UNCHANGED inflight
  /\ UNCHANGED <<store, nextId, clock, storageUp, hist>>

\* The body of a 201.
Created(rq) ==
  [ original_url |-> rq.original_url,
    short_code   |-> rq.short_code,
    expires_at   |-> isoformat(rq.expires_at) ]

\* The INSERT, the commit and the 201; or the IntegrityError of the UNIQUE
\* constraint; or any other exception.
ShortenInsertReply(rq) ==
  IF ~storageUp
    THEN DatabaseError
  ELSE IF UniqueViolated(rq.short_code)
    THEN Reply(409, "integrity",
               Error("Short code already exists, try again"))
  ELSE Reply(201, "", Created(rq))

\* (mutant) INSERT OR REPLACE INTO urls ...
ShortenInsertOrReplace(rq) ==
  /\ rq.op = "shorten"
  /\ Finish(rq)
  /\ IF storageUp
       THEN /\ store' = (store \ SelectByCode(rq.short_code)) \cup
                   {NewRow(rq.original_url, rq.short_code, rq.expires_at)}
            /\ nextId' = nextId + 1
            /\ hist' = [hist EXCEPT !.created = @ + 1,
                                    !.redirects[rq.short_code] = 0]
       ELSE UNCHANGED <<store, nextId, hist>>
  /\ UNCHANGED <<clock, storageUp>>

ShortenInsert(rq) ==
  /\ rq.op = "shorten"
  /\ Finish(rq)
  /\ IF ShortenInsertReply(rq).status = 201
       THEN /\ store' = store \cup
                   {NewRow(rq.original_url, rq.short_code, rq.expires_at)}
            /\ nextId' = nextId + 1
            /\ hist' = [hist EXCEPT !.created = @ + 1,
                                    !.redirects[rq.short_code] = 0]
       ELSE UNCHANGED <<store, nextId, hist>>
  /\ UNCHANGED <<clock, storageUp>>

(* --------------------------- GET /<short_code> ------------------------ *)

\* redirect_to_url up to the UPDATE: the connection and the SELECT of the
\* unexpired row.
RedirectBeginReply(short_code) ==
  IF ~storageUp
    THEN DatabaseError
  ELSE IF SelectActive(short_code, isoformat(clock)) = {}
    THEN Reply(404, "not_found", Error("URL not found or expired"))
  ELSE Pending

RedirectBegin(short_code) ==
  /\ ThreadFree
  /\ \A r \in store : r.click_count + NumInflight("redirect") < MaxClicks
  /\ IF RedirectBeginReply(short_code) = Pending
       THEN \E result \in SelectActive(short_code, isoformat(clock)) :
              Suspend([ op           |-> "redirect",
                        short_code   |-> short_code,
                        original_url |-> result.original_url ])
       ELSE UNCHANGED inflight
  /\ UNCHANGED <<store, nextId, clock, storageUp, hist>>

\* The UPDATE of click_count, the commit and the 302.
RedirectUpdateReply(rq) ==
  IF ~storageUp
    THEN DatabaseError
    ELSE Reply(302, "", [location |-> rq.original_url])

RedirectUpdate(rq) ==
  /\ rq.op = "redirect"
  /\ Finish(rq)
  /\ IF RedirectUpdateReply(rq).status = 302
       THEN /\ store' = UpdateClicks(rq.short_code)
            /\ hist' = [hist EXCEPT !.redirects[rq.short_code] = @ + 1]
       ELSE UNCHANGED <<store, hist>>
  /\ UNCHANGED <<nextId, clock, storageUp>>

(* -------------------------- GET /stats/<code> ------------------------- *)

StatsReply(short_code) ==
  IF ~storageUp
    THEN DatabaseError
  ELSE IF SelectByCode(short_code) = {}
    THEN Reply(404, "not_found", Error("URL not found"))
  ELSE LET result == CHOOSE r \in SelectByCode(short_code) : TRUE
       IN  IF result.expires_at # NULL /\ StrptimeRaises(result.expires_at)
             THEN DatabaseError
             ELSE Reply(200, "",
                    [ original_url |-> result.original_url,
                      short_code   |-> result.short_code,
                      created_at   |-> result.created_at,
                      expires_at   |-> result.expires_at,
                      click_count  |-> result.click_count,
                      is_active    |->
                        \/ result.expires_at = NULL
                        \/ strptime(result.expires_at) > clock ])

\* The handler reads one row and answers; it writes nothing.
get_stats(short_code) ==
  /\ StatsReply(short_code).status \in {200, 404, 500}
  /\ UNCHANGED vars

(* --------------------------- POST /cleanup ---------------------------- *)

\* cleanup_expired_urls(): the rows it deletes.  Its except clause logs
\* the exception and returns 0.
cleanup_expired_urls ==
  IF storageUp THEN ExpiredRows(isoformat(clock)) ELSE {}

CleanupReply ==
  Reply(200, "", [deleted_urls |-> Cardinality(cleanup_expired_urls)])

cleanup ==
  /\ CleanupReply.status = 200
  /\ store' = store \ cleanup_expired_urls
  /\ hist' = [hist EXCEPT !.deleted = @ + Cardinality(cleanup_expired_urls)]
  /\ UNCHANGED <<nextId, clock, storageUp, inflight>>

(* ----------------------- GET /health, /metrics ------------------------ *)

HealthReply ==
  IF storageUp
    THEN Reply(200, "", [status |-> "healthy"])
    ELSE Reply(500, "health_check", [status |-> "unhealthy"])

health ==
  /\ HealthReply.status \in {200, 500}
  /\ UNCHANGED vars

MetricsReply == Reply(200, "", [text |-> "metrics"])

metrics_endpoint ==
  /\ MetricsReply.status = 200
  /\ UNCHANGED vars

(* --------------------------- GET /dashboard --------------------------- *)

\* SELECT ... FROM urls ORDER BY created_at DESC LIMIT n: every result the
\* statement may give (rows with equal created_at come in any order).
RecentRows(n) ==
  LET k == IF Cardinality(store) < n THEN Cardinality(store) ELSE n
  IN  { s \in [1 .. k -> store] :
          /\ \A i, j \in 1 .. k :
               i < j => /\ s[i] # s[j]
                        /\ ~TextLess(s[i].created_at, s[j].created_at)
          /\ \A r \in store :
               (\A i \in 1 .. k : s[i] # r) =>
                 \A i \in 1 .. k : ~TextLess(s[i].created_at, r.created_at) }

\* The dictionaries of urls_list.
UrlsList(rows) ==
  [ i \in 1 .. Len(rows) |->
      [ short_code   |-> rows[i].short_code,
        original_url |-> rows[i].original_url,
        created_at   |-> rows[i].created_at,
        click_count  |-> rows[i].click_count ] ]

\* SELECT COUNT(*) FROM urls
CountRows == Cardinality(store)

\* SELECT SUM(click_count) FROM urls: NULL on an empty table, else <<sum>>.
RECURSIVE SumOf(_)
SumOf(rows) ==
  IF rows = {} THEN 0
  ELSE LET r == CHOOSE x \in rows : TRUE
       IN  r.click_count + SumOf(rows \ {r})

SumClicks == IF store = {} THEN NULL ELSE << SumOf(store) >>

\* c.fetchone()[0] or 0
OrZero(v) == IF v = NULL THEN 0 ELSE v[1]

\* (mutant) ... WHERE expires_at < ? OR expires_at IS NULL
CountActiveReversed(now) ==
  Cardinality({r \in store :
                 SqlLess(r.expires_at, now) \/ r.expires_at = NULL})

\* SELECT COUNT(*) FROM urls WHERE expires_at > ? OR expires_at IS NULL
CountActive(now) ==
  Cardinality({r \in store :
                 SqlLess(now, r.expires_at) \/ r.expires_at = NULL})

\* The connection and the query of the recent urls.
DashboardRecent ==
  /\ ThreadFree
  /\ IF storageUp
       THEN \E rows \in RecentRows(RecentLimit) :
              Suspend([ op           |-> "dashboard",
                        pc           |-> "count",
                        recent_urls  |-> UrlsList(rows),
                        total_urls   |-> 0,
                        total_clicks |-> 0 ])
       ELSE UNCHANGED inflight
  /\ UNCHANGED <<store, nextId, clock, storageUp, hist>>

\* The query of the number of rows.
DashboardCount(rq) ==
  /\ rq.op = "dashboard" /\ rq.pc = "count"
  /\ IF storageUp
       THEN Resume(rq, [rq EXCEPT !.pc = "sum", !.total_urls = CountRows])
       ELSE Finish(rq)
  /\ UNCHANGED <<store, nextId, clock, storageUp, hist>>

\* The query of the sum of the click counts.
DashboardSum(rq) ==
  /\ rq.op = "dashboard" /\ rq.pc = "sum"
  /\ IF storageUp
       THEN Resume(rq, [rq EXCEPT !.pc = "active",
                                  !.total_clicks = OrZero(SumClicks)])
       ELSE Finish(rq)
  /\ UNCHANGED <<store, nextId, clock, storageUp, hist>>

\* The query of the number of active rows, and the response.
DashboardReply(rq) ==
  IF ~storageUp
    THEN DatabaseError
    ELSE Reply(200, "",
           [ recent_urls  |-> rq.recent_urls,
             total_urls   |-> rq.total_urls,
             total_clicks |-> rq.total_clicks,
             active_urls  |-> CountActive(isoformat(clock)) ])

DashboardActive(rq) ==
  /\ rq.op = "dashboard" /\ rq.pc = "active"
  /\ DashboardReply(rq).status \in {200, 500}
  /\ Finish(rq)
  /\ UNCHANGED <<store, nextId, clock, storageUp, hist>>

(* ------------------------------ the server ---------------------------- *)

\* A request arrives and its handler runs to its first statement.
Receive ==
  \/ /\ Route("POST", "shorten") = "shorten_url"
     /\ ShortenBegin
  \/ \E seg \in Segments :
       /\ Route("GET", seg) = "redirect_to_url"
       /\ RedirectBegin(seg)

ReceiveDashboard ==
  /\ \E seg \in Segments : Route("GET", seg) = "dashboard"
  /\ DashboardRecent

\* A handler in progress runs its next statement.
Continue ==
  \E rq \in BagToSet(inflight) :
    \/ ShortenInsert(rq)
    \/ RedirectUpdate(rq)

ContinueDashboard ==
  \E rq \in BagToSet(inflight) :
    \/ DashboardCount(rq)
    \/ DashboardSum(rq)
    \/ DashboardActive(rq)

\* The handlers of a single statement.
Atomic ==
  \/ \E code \in StoredCodes : get_stats(code)
  \/ /\ Route("POST", "cleanup") = "cleanup"
     /\ cleanup
  \/ /\ \E seg \in Segments : Route("GET", seg) = "health"
     /\ health
  \/ /\ \E seg \in Segments : Route("GET", seg) = "metrics_endpoint"
     /\ metrics_endpoint

Environment ==
  \/ Tick
  \/ StorageFails
  \/ StorageRecovers

\* Requests that write are served concurrently, each on a thread of its
\* own, together with the single-statement handlers.  (The dashboard only
\* reads; its four statements are steps of SerialSpec.)
Next ==
  \/ Receive
  \/ Continue
  \/ Atomic
  \/ Environment

Spec == Init /\ [][Next]_vars

\* Requests are served one at a time: a request is received only when no
\* other is in progress.
NoneInProgress == inflight = EmptyBag

SerialNext ==
  \/ NoneInProgress /\ Receive
  \/ NoneInProgress /\ ReceiveDashboard
  \/ Continue
  \/ ContinueDashboard
  \/ NoneInProgress /\ Atomic
  \/ Environment

SerialSpec == Init /\ [][SerialNext]_vars

(* ========================== the properties ============================ *)

\* The instant a stored timestamp text denotes, in clock units.
InstantOf(text) ==
  text[1] * UnitsPerSecond + (IF Len(text) = 2 THEN text[2] ELSE 0)

\* An active URL: its expiry is null or in the future relative to now.
IsActive(r) == r.expires_at = NULL \/ InstantOf(r.expires_at) > clock

\* A row whose expiry is in the past.
IsPast(r) == r.expires_at # NULL /\ InstantOf(r.expires_at) < clock

RowsOf(code) == {r \in store : r.short_code = code}

\* In this step the request rq enters, or leaves, the requests in flight.
Starts(rq) == inflight' = inflight (+) SetToBag({rq})
Completes(rq) == BagIn(rq, inflight) /\ inflight' = inflight (-) SetToBag({rq})

\* store' is store with the click_count of row r one higher.
OnlyClicked(r) ==
  store' = (store \ {r}) \cup {[r EXCEPT !.click_count = @ + 1]}

\* What a POST /shorten may carry.
ShortenInputs ==
  { i \in [ is_json : BOOLEAN, url : Urls, custom_code : CustomCodes,
            days_valid : DaysValid ] : i.is_json \/ i.days_valid = <<>> }

(* ---------------------------------------------------------------------- *)
(* C1.  However the /shorten requests for one short code interleave: no   *)
(* two rows ever share a short_code (an expired row that cleanup has not  *)
(* deleted counts); a request that reaches its INSERT with the storage    *)
(* reachable gets 201 when no row holds the code, and then exactly one    *)
(* row holds it, and 409 otherwise, and then the table is as it was; the  *)
(* check before the INSERT answers 409 only when a row holds the code.    *)
(* ---------------------------------------------------------------------- *)
UniqueCodes ==
  \A r1, r2 \in store : r1.short_code = r2.short_code => r1 = r2

C1_CheckRefusesOnlyTaken ==
  \A i \in ShortenInputs :
    ShortenBeginReply(i.is_json, i.url, i.custom_code, i.days_valid).status
      = 409 => RowsOf(i.custom_code) # {}

C1_OneWinnerStep ==
  \A rq \in InflightOf("shorten") :
    (Completes(rq) /\ storageUp) =>
      IF RowsOf(rq.short_code) = {}
        THEN /\ ShortenInsertReply(rq).status = 201
             /\ Cardinality({r \in store' : r.short_code = rq.short_code}) = 1
        ELSE /\ ShortenInsertReply(rq).status = 409
             /\ store' = store

C1_ExactlyOneSuccess ==
  /\ [](UniqueCodes /\ C1_CheckRefusesOnlyTaken)
  /\ [][C1_OneWinnerStep]_vars

\* Two requests for one code were both past the check for it; the row of
\* the first is stored, has expired, and the second, still before its
\* INSERT, is going to be refused by the UNIQUE constraint.
C1_Witness ==
  \E rq \in InflightOf("shorten") :
    /\ ShortenInsertReply(rq).status = 409
    /\ \E r \in RowsOf(rq.short_code) :
         /\ r.original_url = rq.original_url
         /\ r.expires_at = isoformat(rq.expires_at)
         /\ ~IsActive(r)

(* ---------------------------------------------------------------------- *)
(* C2, as claimed.  With the storage reachable, a redirect answers 404    *)
(* exactly when no row holds the code or the row's expiry is not after    *)
(* now, and changes no row; a redirect that found the row answers 302 to  *)
(* the stored original_url and exactly that row's click_count goes up by  *)
(* one.                                                                   *)
(* ---------------------------------------------------------------------- *)
C2_Lookup ==
  \A code \in Segments :
    storageUp =>
      IF \E r \in RowsOf(code) : IsActive(r)
        THEN RedirectBeginReply(code) = Pending
        ELSE RedirectBeginReply(code).status = 404

C2_LookupStep ==
  \A rq \in BagToSet(inflight') :
    (rq.op = "redirect" /\ Starts(rq)) =>
      /\ store' = store
      /\ \E r \in RowsOf(rq.short_code) :
           IsActive(r) /\ rq.original_url = r.original_url

C2_AsClaimedStep ==
  /\ C2_LookupStep
  /\ \A rq \in InflightOf("redirect") :
       (Completes(rq) /\ storageUp) =>
         /\ RedirectUpdateReply(rq).status = 302
         /\ \E r \in RowsOf(rq.short_code) :
              /\ RedirectUpdateReply(rq).body.location = r.original_url
              /\ OnlyClicked(r)

C2_AsClaimed == []C2_Lookup /\ [][C2_AsClaimedStep]_vars

(* ---------------------------------------------------------------------- *)
(* C2, amended.  The lookup is as claimed.  The 302 goes to the           *)
(* original_url the lookup read; the click_count of the row that holds    *)
(* the code when the UPDATE runs goes up by exactly one and no other row  *)
(* changes; when cleanup has deleted the row in between, no row changes.  *)
(* A redirect that answers 500 changes no row.                            *)
(* ---------------------------------------------------------------------- *)
C2_AmendedStep ==
  /\ C2_LookupStep
  /\ \A rq \in InflightOf("redirect") :
       Completes(rq) =>
         IF storageUp
           THEN /\ RedirectUpdateReply(rq).status = 302
                /\ RedirectUpdateReply(rq).body.location = rq.original_url
                /\ IF RowsOf(rq.short_code) = {}
                     THEN store' = store
                     ELSE \E r \in RowsOf(rq.short_code) : OnlyClicked(r)
           ELSE /\ RedirectUpdateReply(rq).status = 500
                /\ store' = store

C2_Amended == []C2_Lookup /\ [][C2_AmendedStep]_vars

\* A redirect has read its row, cleanup has deleted the row, and the
\* redirect, still before its UPDATE, is going to answer 302.
C2_Witness ==
  \E rq \in InflightOf("redirect") :
    /\ RowsOf(rq.short_code) = {}
    /\ hist.deleted >= 1
    /\ RedirectUpdateReply(rq).status = 302

(* ---------------------------------------------------------------------- *)
(* C3.  With the storage reachable, /stats/<code> answers 404 when no row *)
(* holds the code, and otherwise 200 with is_active true exactly when the *)
(* row's expiry is null or in the future; never 500.                      *)
(* ---------------------------------------------------------------------- *)
C3_StatsNever500 ==
  \A code \in StoredCodes :
    storageUp =>
      IF RowsOf(code) = {}
        THEN StatsReply(code).status = 404
        ELSE /\ StatsReply(code).status = 200
             /\ \E r \in RowsOf(code) :
                  StatsReply(code).body.is_active = IsActive(r)

(* ---------------------------------------------------------------------- *)
(* C4.  With the storage reachable, /cleanup deletes exactly the rows     *)
(* whose expiry is strictly before now, leaves every other row as it is   *)
(* and reports the number deleted; no stored row is past its expiry       *)
(* afterwards, and a cleanup that directly follows deletes nothing and    *)
(* reports 0.                                                             *)
(* ---------------------------------------------------------------------- *)
C4_Reports ==
  storageUp =>
    /\ cleanup_expired_urls = {r \in store : IsPast(r)}
    /\ CleanupReply.status = 200
    /\ CleanupReply.body.deleted_urls = Cardinality({r \in store : IsPast(r)})

\* The rows this step takes out of the table.
Deleted == {r \in store : \A r2 \in store' : r2.id # r.id}

C4_CleanupStep ==
  (hist'.deleted # hist.deleted \/ Deleted # {}) =>
    /\ Deleted = {r \in store : IsPast(r)}
    /\ store' = store \ Deleted
    /\ hist'.deleted = hist.deleted + CleanupReply.body.deleted_urls
    /\ \A r \in store' : ~IsPast(r)
    /\ cleanup_expired_urls' = {}
    /\ CleanupReply'.body.deleted_urls = 0

C4_DeletesExactlyExpired == []C4_Reports /\ [][C4_CleanupStep]_vars

\* Cleanup has deleted the second row, which had expired, and left the
\* first, whose expiry is exactly now.
C4_Witness ==
  /\ hist.created = 2 /\ hist.deleted = 1
  /\ storageUp
  /\ \E r \in store : r.id = 1 /\ InstantOf(r.expires_at) = clock

(* ---------------------------------------------------------------------- *)
(* C5.  A /cleanup whose DELETE cannot run, the storage being             *)
(* unreachable, answers 500.                                              *)
(* ---------------------------------------------------------------------- *)
C5_FailedCleanupIs500 == ~storageUp => CleanupReply.status = 500

(* ---------------------------------------------------------------------- *)
(* C6.  Every stored row has expires_at null or strictly after its        *)
(* created_at.                                                            *)
(* ---------------------------------------------------------------------- *)
C6_ExpiresAfterCreated ==
  \A r \in store :
    \/ r.expires_at = NULL
    \/ InstantOf(r.expires_at) > InstantOf(r.created_at)

(* ---------------------------------------------------------------------- *)
(* C7.  In every interleaving: a row's click_count equals the number of   *)
(* 302 answers for its code since the row was inserted; a new row has     *)
(* click_count 0; and from one step to the next a stored row keeps its    *)
(* original_url, short_code, created_at and expires_at, and its           *)
(* click_count does not go down.                                          *)
(* ---------------------------------------------------------------------- *)
ClicksAreRedirects ==
  \A r \in store : r.click_count = hist.redirects[r.short_code]

C7_RowStep ==
  \A r2 \in store' :
    IF \E r \in store : r.id = r2.id
      THEN \E r \in store :
             /\ r.id = r2.id
             /\ r2.original_url = r.original_url
             /\ r2.short_code = r.short_code
             /\ r2.created_at = r.created_at
             /\ r2.expires_at = r.expires_at
             /\ r2.click_count >= r.click_count
      ELSE r2.click_count = 0

C7_ClickCount == []ClicksAreRedirects /\ [][C7_RowStep]_vars

\* A row was redirected to as often as the bound allows, next to a row
\* never redirected to.
C7_Witness ==
  /\ \E r \in store : r.click_count = MaxClicks
  /\ \E r \in store : r.click_count = 0

(* ---------------------------------------------------------------------- *)
(* C8.  After any sequence of requests, a /dashboard that answers 200     *)
(* reports: total_urls, the rows inserted minus the rows deleted;         *)
(* total_clicks, the sum of the click counts (0 on an empty table);       *)
(* active_urls, the number of rows whose expiry is null or after now;     *)
(* and at most the LIMIT of rows, newest first, no row left out being     *)
(* newer than a row listed.                                               *)
(* ---------------------------------------------------------------------- *)
\* The sum of the click counts, counted level by level.
RECURSIVE ClicksFrom(_)
ClicksFrom(k) ==
  IF \A r \in store : r.click_count < k
    THEN 0
    ELSE Cardinality({r \in store : r.click_count >= k}) + ClicksFrom(k + 1)

Listed(recent, r) ==
  \E i \in 1 .. Len(recent) :
    /\ recent[i].short_code = r.short_code
    /\ recent[i].original_url = r.original_url
    /\ recent[i].created_at = r.created_at
    /\ recent[i].click_count = r.click_count

\* The dashboard requests that are before their last statement.
Answering == {rq \in InflightOf("dashboard") : rq.pc = "active"}

C9_Answers ==
  \A rq \in InflightOf("shorten") :
    ShortenInsertReply(rq).status \in {201, 409, 500}

\* The rows this step puts into the table.
Added == {r \in store' : \A r2 \in store : r2.id # r.id}

C9_ShortenStep ==
  /\ \A rq \in InflightOf("shorten") :
       Completes(rq) =>
         IF ShortenInsertReply(rq).status = 201
           THEN /\ \E r \in store' :
                     /\ r \notin store
                     /\ store' = store \cup {r}
                     /\ r.short_code = ShortenInsertReply(rq).body.short_code
                     /\ r.original_url =
                          ShortenInsertReply(rq).body.original_url
                     /\ r.id = nextId
                /\ nextId' = nextId + 1
           ELSE /\ store' = store
                /\ nextId' = nextId
  /\ (Added # {} \/ nextId' # nextId) =>
       \E rq \in InflightOf("shorten") :
         Completes(rq) /\ ShortenInsertReply(rq).status = 201
  /\ \A rq \in BagToSet(inflight') :
       (rq.op = "shorten" /\ CopiesIn(rq, inflight') > CopiesIn(rq, inflight))
         => (Starts(rq) /\ store' = store /\ nextId' = nextId)

C9_ShortenFrame == []C9_Answers /\ [][C9_ShortenStep]_vars

\* A /shorten has answered 201: its row is the newest, and it stands next
\* to an older row that has a click.
C9_Witness ==
  /\ \E r \in store : r.id = nextId - 1 /\ r.click_count = 0
  /\ \E r \in store : r.id < nextId - 1 /\ r.click_count >= 1

(* ---------------------------------------------------------------------- *)
(* C10.  Every stored code resolves: while its row is unexpired, a GET of *)
(* /<short_code> is given to the redirect handler.                        *)
(* ---------------------------------------------------------------------- *)
C10_EveryCodeResolves ==
  \A r \in store :
    IsActive(r) => Route("GET", r.short_code) = "redirect_to_url"

====
